---- MODULE Spec2Model ----
(***************************************************************************)
(* Model of ObjectTracker (src/ai/object_detection_api.py): IoU based      *)
(* association of per-frame detections to tracks, de-bounce by hit count,  *)
(* the counted ledger and the stale-track sweep; of the camera_trackers    *)
(* registry of the same file; and of the training endpoints of             *)
(* src/object_detection_api.py.                                            *)
(*                                                                         *)
(* Bounding boxes are <<x1, y1, x2, y2>> over the integers.  An IoU value  *)
(* is the exact fraction <<numerator, denominator>> with a positive        *)
(* denominator, so that "iou > best_iou" is decided as the code decides    *)
(* it on floats of small integer ratios.                                   *)
(***************************************************************************)
EXTENDS Integers, Sequences, FiniteSets, TLC

\* ------------------------------------------------------------ constants
\* ObjectTracker.__init__ defaults.
iou_threshold == <<3, 10>>
max_age == 30
min_hits == 3
cleanup_interval == 60

\* ------------------------------------------------------------ bounds
MaxIds == 3          \* at most this many track ids are ever assigned
MaxHits == 4         \* the hit counts of the live tracks sum to at most this
MaxDets == 2         \* detections per update call
NearFrames == 1      \* frame ids 1..NearFrames, then two ids max_age later
MaxTime == 60        \* wall clock stops here
MaxRequests == 3     \* POST /train requests received by the training service

\* ------------------------------------------------------------ inputs
\* Frame ids offered to update: consecutive ids, then ids exactly max_age
\* and max_age + 1 after the last consecutive one.
Frames == (1 .. NearFrames) \cup {NearFrames + max_age, NearFrames + max_age + 1}

\* (height, width) of the decoded frame.
ImageShapes == {<<2, 6>>}

\* Cars: a normalized box (no coordinate above 1), which update scales to
\* the image, giving <<0, 0, 6, 2>>, and a box one pixel to its right
\* (IoU 10/14 with it).  Persons: <<0, 0, 6, 2>> and a box whose IoU with it
\* is exactly 6/20, the threshold.
CarBoxes == {<<0, 0, 1, 1>>, <<1, 0, 7, 2>>}
PersonBoxes == {<<0, 0, 6, 2>>, <<3, 0, 10, 2>>}
Confidences == {1}

Detections ==
    [bbox : CarBoxes, class_name : {"car"}, confidence : Confidences]
    \cup [bbox : PersonBoxes, class_name : {"person"}, confidence : Confidences]

RECURSIVE SeqsUpTo(_, _)
SeqsUpTo(S, n) ==
    IF n = 0 THEN {<< >>}
    ELSE LET shorter == SeqsUpTo(S, n - 1)
         IN  shorter \cup {Append(s, e) : s \in {x \in shorter : Len(x) = n - 1}, e \in S}

Batches == SeqsUpTo(Detections, MaxDets)

\* ------------------------------------------------------------ helpers
Max2(a, b) == IF a >= b THEN a ELSE b
Min2(a, b) == IF a <= b THEN a ELSE b

RECURSIVE MaxOfSet(_)
MaxOfSet(S) ==
    LET x == CHOOSE e \in S : TRUE
    IN  IF S = {x} THEN x ELSE Max2(x, MaxOfSet(S \ {x}))

MinOfSet(S) == CHOOSE x \in S : \A y \in S : x <= y

\* a/b > c/d for positive denominators
FracGT(p, q) == p[1] * q[2] > q[1] * p[2]
FracEQ(p, q) == p[1] * q[2] = q[1] * p[2]

\* intersection_area / union_area as a fraction with positive denominator
Divide(n, d) == IF d < 0 THEN <<0 - n, 0 - d>> ELSE <<n, d>>

\* ------------------------------------------------------------ calculate_iou
IouOverSumOfAreas(box1, box2) ==
    LET x1 == Max2(box1[1], box2[1])
        y1 == Max2(box1[2], box2[2])
        x2 == Min2(box1[3], box2[3])
        y2 == Min2(box1[4], box2[4])
        intersection_area == (x2 - x1) * (y2 - y1)
        union_area == (box1[3] - box1[1]) * (box1[4] - box1[2]) + (box2[3] - box2[1]) * (box2[4] - box2[2])
    IN  IF x2 < x1 \/ y2 < y1 THEN <<0, 1>>
        ELSE IF union_area = 0 THEN <<0, 1>>
        ELSE Divide(intersection_area, union_area)

\* lines 65-86
calculate_iou(box1, box2) ==
    LET x1 == Max2(box1[1], box2[1])
        y1 == Max2(box1[2], box2[2])
        x2 == Min2(box1[3], box2[3])
        y2 == Min2(box1[4], box2[4])
        intersection_area == (x2 - x1) * (y2 - y1)
        box1_area == (box1[3] - box1[1]) * (box1[4] - box1[2])
        box2_area == (box2[3] - box2[1]) * (box2[4] - box2[2])
        union_area == box1_area + box2_area - intersection_area
    IN  IF x2 < x1 \/ y2 < y1 THEN <<0, 1>>
        ELSE IF union_area = 0 THEN <<0, 1>>
        ELSE Divide(intersection_area, union_area)

\* ------------------------------------------------------------ update: lines 93-98
\* max(det["bbox"]) <= 1.0 selects the normalized boxes; they are scaled
\* by the image width and height.  The detection is changed in place and
\* has no tracking id yet (0 stands for the absent key).
IsNormalized(bbox) == MaxOfSet({bbox[k] : k \in 1 .. 4}) <= 1

Denormalize(det, image_shape) ==
    LET h == image_shape[1]
        w == image_shape[2]
        b == det.bbox
    IN  [bbox |-> IF IsNormalized(b) THEN <<b[1] * w, b[2] * h, b[3] * w, b[4] * h>> ELSE b,
         class_name |-> det.class_name,
         confidence |-> det.confidence,
         tracking_id |-> 0]

DenormalizeAll(detections, image_shape) ==
    [i \in 1 .. Len(detections) |-> Denormalize(detections[i], image_shape)]

\* ------------------------------------------------------------ update: lines 105-134
AnyClass(tracked_obj, detection) == TRUE

\* line 110: only tracks of the detection's class are candidates
SameClass(tracked_obj, detection) == tracked_obj.class_name = detection.class_name

AtLeastAsGood(iou, best_iou) == FracGT(iou, best_iou) \/ FracEQ(iou, best_iou)

\* line 114: strict improvement over the best so far (initially the threshold)
Better(iou, best_iou) == FracGT(iou, best_iou)

\* lines 109-116: the dict is scanned in insertion order, which is ascending
\* id order (ids are inserted increasing and deletion keeps the order).
\* best_match 0 stands for None.
RECURSIVE ScanTracks(_, _, _, _, _)
ScanTracks(objs, ids, detection, best_iou, best_match) ==
    IF ids = {} THEN best_match
    ELSE LET obj_id == MinOfSet(ids)
             tracked_obj == objs[obj_id]
             iou == calculate_iou(tracked_obj.bbox, detection.bbox)
             best == IF ~SameClass(tracked_obj, detection) THEN <<best_iou, best_match>>
                     ELSE IF Better(iou, best_iou) THEN <<iou, obj_id>>
                     ELSE <<best_iou, best_match>>
         IN  ScanTracks(objs, ids \ {obj_id}, detection, best[1], best[2])

\* lines 106-116
BestMatch(objs, detection) ==
    ScanTracks(objs, DOMAIN objs, detection, iou_threshold, 0)

\* lines 120-123
MatchTrackRestarts(tracked_obj, detection, frame_id) ==
    [tracked_obj EXCEPT !.bbox = detection.bbox,
                        !.confidence = detection.confidence,
                        !.first_frame = frame_id,
                        !.last_frame = frame_id,
                        !.hits = @ + 1]

\* lines 120-123
MatchTrack(tracked_obj, detection, frame_id) ==
    [tracked_obj EXCEPT !.bbox = detection.bbox,
                        !.confidence = detection.confidence,
                        !.last_frame = frame_id,
                        !.hits = @ + 1]

\* lines 126-128
AppendHistory(hist, obj_id, bbox) ==
    IF obj_id \in DOMAIN hist
    THEN [hist EXCEPT ![obj_id] = Append(@, bbox)]
    ELSE hist @@ (obj_id :> <<bbox>>)

\* lines 118-134 for one detection, given its best match (0 for None)
AssociateOne(objs, hist, dets, det_idx, frame_id, unmatched, best_match) ==
    IF best_match # 0
    THEN [objs |-> [objs EXCEPT ![best_match] = MatchTrack(@, dets[det_idx], frame_id)],
          hist |-> AppendHistory(hist, best_match, dets[det_idx].bbox),
          dets |-> [dets EXCEPT ![det_idx].tracking_id = best_match],
          unmatched |-> unmatched]
    ELSE [objs |-> objs, hist |-> hist, dets |-> dets,
          unmatched |-> Append(unmatched, det_idx)]

\* lines 105-134: detections are taken in input order against the tracks as
\* the earlier detections of this call left them.
RECURSIVE Associate(_, _, _, _, _, _)
Associate(objs, hist, dets, det_idx, frame_id, unmatched) ==
    IF det_idx > Len(dets)
    THEN [objs |-> objs, hist |-> hist, dets |-> dets, unmatched |-> unmatched]
    ELSE LET step == CHOOSE one \in {AssociateOne(objs, hist, dets, det_idx, frame_id,
                                                  unmatched,
                                                  BestMatch(objs, dets[det_idx]))} : TRUE
         IN  Associate(step.objs, step.hist, step.dets, det_idx + 1, frame_id,
                       step.unmatched)

\* ------------------------------------------------------------ update: lines 137-155
NewTrackUnseen(detection, frame_id) ==
    [bbox |-> detection.bbox,
     class_name |-> detection.class_name,
     confidence |-> detection.confidence,
     first_frame |-> frame_id,
     last_frame |-> frame_id,
     hits |-> 0]

\* lines 142-149
NewTrack(detection, frame_id) ==
    [bbox |-> detection.bbox,
     class_name |-> detection.class_name,
     confidence |-> detection.confidence,
     first_frame |-> frame_id,
     last_frame |-> frame_id,
     hits |-> 1]

NextIdStuck(next_id) == next_id

\* lines 139-140
NextId(next_id) == next_id + 1

RECURSIVE CreateTracks(_, _, _, _, _, _)
CreateTracks(next_id, objs, hist, dets, unmatched, frame_id) ==
    IF unmatched = << >>
    THEN [next_id |-> next_id, objs |-> objs, hist |-> hist, dets |-> dets]
    ELSE LET det_idx == Head(unmatched)
             detection == dets[det_idx]
             new_id == next_id
         IN  CreateTracks(NextId(next_id),
                          (new_id :> NewTrack(detection, frame_id)) @@ objs,
                          (new_id :> <<detection.bbox>>) @@ hist,
                          [dets EXCEPT ![det_idx].tracking_id = new_id],
                          Tail(unmatched), frame_id)

\* ------------------------------------------------------------ cleanup_old_objects
SweepAlways(force, now_, last_cleanup_) == TRUE

\* line 48 negated: the sweep runs
SweepDue(force, now_, last_cleanup_) == force \/ ~(now_ - last_cleanup_ < cleanup_interval)

\* line 52
CurrentFrameIdAhead(objs) ==
    IF DOMAIN objs # {}
    THEN MaxOfSet({objs[i].last_frame : i \in DOMAIN objs}) + max_age + 1
    ELSE 0

\* line 52
CurrentFrameId(objs) ==
    IF DOMAIN objs # {} THEN MaxOfSet({objs[i].last_frame : i \in DOMAIN objs}) ELSE 0

IsStaleAtMaxAge(current_frame_id, obj) == current_frame_id - obj.last_frame >= max_age

\* line 57
IsStale(current_frame_id, obj) == current_frame_id - obj.last_frame > max_age

\* lines 55-58
IdsToRemove(objs) ==
    {obj_id \in DOMAIN objs : IsStale(CurrentFrameId(objs), objs[obj_id])}

Restrict(f, S) == [x \in S |-> f[x]]

\* lines 45-63 on a tracker record
Sweep(t, force, now_) ==
    IF ~SweepDue(force, now_, t.last_cleanup) THEN t
    ELSE LET ids_to_remove == IdsToRemove(t.tracked_objects)
         IN  [t EXCEPT !.last_cleanup = now_,
                       !.tracked_objects = Restrict(@, DOMAIN @ \ ids_to_remove),
                       !.object_history = Restrict(@, DOMAIN @ \ ids_to_remove)]

CleanupForgetsCounted(t, force, now_) ==
    LET swept == Sweep(t, force, now_)
    IN  [swept EXCEPT !.counted_objects = Restrict(@, DOMAIN @ \cap DOMAIN swept.tracked_objects)]

cleanup_old_objects(t, force, now_) == Sweep(t, force, now_)

\* ------------------------------------------------------------ update: lines 160-173
IsConfirmedOneLate(tracked_obj) == tracked_obj.hits > min_hits

IsConfirmedOneEarly(tracked_obj) == tracked_obj.hits >= min_hits - 1

\* line 164
IsConfirmed(tracked_obj) == tracked_obj.hits >= min_hits

\* lines 166-170
MarkCounted(counted, obj_id, det, now_) ==
    IF obj_id \notin DOMAIN counted
    THEN counted @@ (obj_id :> [class_name |-> det.class_name, first_seen |-> now_])
    ELSE counted

KeepFirst(filtered_detections, det) == <<det>> \o filtered_detections

\* line 171
Keep(filtered_detections, det) == Append(filtered_detections, det)

\* lines 162-171; self.tracked_objects[obj_id] raises KeyError for an id
\* that is no longer tracked, which ends update with what was counted so far.
RECURSIVE FilterLoop(_, _, _, _, _, _)
FilterLoop(objs, counted, dets, det_idx, filtered, now_) ==
    IF det_idx > Len(dets)
    THEN [counted |-> counted, ret |-> filtered, err |-> FALSE]
    ELSE LET det == dets[det_idx]
             obj_id == det.tracking_id
             keep == obj_id # 0 /\ IsConfirmed(objs[obj_id])
         IN  IF obj_id # 0 /\ obj_id \notin DOMAIN objs
             THEN [counted |-> counted, ret |-> << >>, err |-> TRUE]
             ELSE FilterLoop(objs,
                             IF keep THEN MarkCounted(counted, obj_id, det, now_) ELSE counted,
                             dets, det_idx + 1,
                             IF keep THEN Keep(filtered, det) ELSE filtered, now_)

\* ------------------------------------------------------------ update
\* lines 88-173 on a tracker record: the tracker after the call, the
\* detections as annotated in place, the returned list, and whether the call
\* ended in KeyError.
\* lines 137-155 on the outcome a of the association loop
Created(t, a, frame_id) ==
    CreateTracks(t.next_id, a.objs, a.hist, a.dets, a.unmatched, frame_id)

\* the tracker as the two loops leave it
Stored(t, c) ==
    [t EXCEPT !.next_id = c.next_id,
              !.tracked_objects = c.objs,
              !.object_history = c.hist]

\* lines 160-173 on the tracker t2 as the sweep of line 158 left it
Filtered(t2, dets, swept, now_) ==
    LET f == FilterLoop(t2.tracked_objects, t2.counted_objects, dets, 1, << >>, now_)
    IN  [t |-> [t2 EXCEPT !.counted_objects = f.counted],
         dets |-> dets,
         swept |-> swept,
         ret |-> f.ret,
         err |-> f.err]

\* lines 157-173 on the outcome c of the creation loop
SweepAndFilter(t1, c, now_) ==
    Filtered(cleanup_old_objects(t1, FALSE, now_), c.dets,
             SweepDue(FALSE, now_, t1.last_cleanup), now_)

AfterLoops(t, c, now_) == SweepAndFilter(Stored(t, c), c, now_)

update(t, detections, frame_id, image_shape, now_) ==
    AfterLoops(t,
               Created(t,
                       Associate(t.tracked_objects, t.object_history,
                                 DenormalizeAll(detections, image_shape), 1, frame_id, << >>),
                       frame_id),
               now_)

\* ------------------------------------------------------------ get_statistics
\* lines 181-183 for one entry of counted_objects
CountOne(counts, class_name) ==
    IF class_name \notin DOMAIN counts
    THEN counts @@ (class_name :> 1)
    ELSE [counts EXCEPT ![class_name] = @ + 1]

\* lines 179-183 over the entries not yet visited
RECURSIVE CountLoop(_, _, _)
CountLoop(counted, ids, counts) ==
    IF ids = {} THEN counts
    ELSE LET obj_id == MinOfSet(ids)
         IN  CountLoop(counted, ids \ {obj_id}, CountOne(counts, counted[obj_id].class_name))

CountsEveryEntry(counted) ==
    [c \in {counted[i].class_name : i \in DOMAIN counted} |-> Cardinality(DOMAIN counted)]

\* lines 178-183
CountsByType(counted) == CountLoop(counted, DOMAIN counted, [c \in {} |-> 0])

\* lines 175-189
get_statistics(t) ==
    [total_objects |-> Cardinality(DOMAIN t.counted_objects),
     counts_by_type |-> CountsByType(t.counted_objects),
     active_tracks |-> Cardinality(DOMAIN t.tracked_objects)]

\* ------------------------------------------------------------ state
VARIABLES
    next_id,            \* self.next_id
    tracked_objects,    \* self.tracked_objects: id -> track
    object_history,     \* self.object_history: id -> boxes
    counted_objects,    \* self.counted_objects: id -> class and time
    last_cleanup,       \* self.last_cleanup
    now,                \* time.time()
    last,               \* the last call on the tracker, its inputs and results
    frame_clock,        \* highest frame_id passed to update so far
    streak,             \* see Streak
    seen,               \* live id -> update calls that created or matched it
    camera_trackers,    \* the global camera_trackers: camera id -> tracker
    idle,               \* the cameras that send no more frames
    fed,                \* camera id -> the last frame_id passed to its tracker
    reg_last,           \* the last process_image call or cleanup_trackers pass
    boxA, boxB,         \* arguments of calculate_iou
    iou,                \* its result, << >> before the call
    training_status,    \* the global training_status of the training service
    requests            \* POST /train request -> how far it and its task got

tracker_vars == <<next_id, tracked_objects, object_history, counted_objects, last_cleanup>>
ghost_vars == <<last, frame_clock, streak, seen>>
registry_vars == <<camera_trackers, idle, fed, reg_last>>
iou_vars == <<boxA, boxB, iou>>
train_vars == <<training_status, requests>>
vars == <<next_id, tracked_objects, object_history, counted_objects, last_cleanup,
          now, last, frame_clock, streak, seen,
          camera_trackers, idle, fed, reg_last, boxA, boxB, iou,
          training_status, requests>>

Tracker ==
    [next_id |-> next_id,
     tracked_objects |-> tracked_objects,
     object_history |-> object_history,
     counted_objects |-> counted_objects,
     last_cleanup |-> last_cleanup]

EmptyMap == [x \in {} |-> 0]

\* stats of a call that is not get_statistics
NoStats == [total_objects |-> 0, counts_by_type |-> EmptyMap, active_tracks |-> 0]

Call(op, force, swept, dets, ret, err) ==
    [op |-> op, force |-> force, swept |-> swept, dets |-> dets, ret |-> ret, err |-> err,
     stats |-> NoStats]

\* what process_image and cleanup_trackers last did
RegCall(op, camera_id, created, failed, dets, ret) ==
    [op |-> op, camera_id |-> camera_id, created |-> created, failed |-> failed,
     dets |-> dets, ret |-> ret]

\* line 192: no tracker yet
RegistryInit ==
    /\ camera_trackers = EmptyMap
    /\ idle = {}
    /\ fed = EmptyMap
    /\ reg_last = RegCall("init", 0, FALSE, FALSE, << >>, << >>)

\* calculate_iou is not being called
IouIdle ==
    /\ boxA = <<0, 0, 0, 0>>
    /\ boxB = <<0, 0, 0, 0>>
    /\ iou = << >>

\* src/object_detection_api.py lines 87-94: no training, no request yet
TrainIdle ==
    /\ training_status = [active |-> FALSE, stop_requested |-> FALSE]
    /\ requests = [r \in 1 .. MaxRequests |-> "new"]

\* lines 34-43
TrackerInit ==
    /\ next_id = 1
    /\ tracked_objects = EmptyMap
    /\ object_history = EmptyMap
    /\ counted_objects = EmptyMap
    /\ now = 0
    /\ last_cleanup = now
    /\ last = Call("init", FALSE, FALSE, << >>, << >>, FALSE)
    /\ frame_clock = 0
    /\ streak = 0
    /\ seen = EmptyMap

\* one tracker, no registry
Init == TrackerInit /\ RegistryInit /\ IouIdle /\ TrainIdle

SetTracker(t) ==
    /\ next_id' = t.next_id
    /\ tracked_objects' = t.tracked_objects
    /\ object_history' = t.object_history
    /\ counted_objects' = t.counted_objects
    /\ last_cleanup' = t.last_cleanup

\* The number of update calls so far when every one of them carried exactly
\* one detection, of one class, each box overlapping the box of the call
\* before with IoU above the threshold; -1 once a call broke the pattern.
Streak(r) ==
    IF streak = -1 \/ Len(r.dets) # 1 THEN -1
    ELSE IF streak = 0 THEN 1
    ELSE IF /\ last.op = "update"
            /\ last.dets[1].class_name = r.dets[1].class_name
            /\ FracGT(calculate_iou(last.dets[1].bbox, r.dets[1].bbox), iou_threshold)
         THEN streak + 1
         ELSE -1

\* The ids the call wrote onto its detections.
Annotated(dets) == {dets[i].tracking_id : i \in 1 .. Len(dets)}

\* One more call for every live track the call annotated a detection with.
Seen(r) ==
    [id \in DOMAIN r.t.tracked_objects |->
        (IF id \in DOMAIN seen THEN seen[id] ELSE 0)
        + (IF id \in Annotated(r.dets) THEN 1 ELSE 0)]

RECURSIVE SumHits(_, _)
SumHits(objs, ids) ==
    IF ids = {} THEN 0
    ELSE LET i == CHOOSE x \in ids : TRUE
         IN  objs[i].hits + SumHits(objs, ids \ {i})

\* Every detection of a batch adds one hit (to the track it matches or to
\* the track it creates).
RoomFor(detections) ==
    SumHits(tracked_objects, DOMAIN tracked_objects) + Len(detections) <= MaxHits

\* tracker.update(detections, frame_id, image_shape), whatever frame_id is
UpdateCall(detections, frame_id, image_shape) ==
    /\ RoomFor(detections)
    /\ \E r \in {update(Tracker, detections, frame_id, image_shape, now)} :
          /\ r.t.next_id - 1 <= MaxIds
          /\ SetTracker(r.t)
          /\ last' = Call("update", FALSE, r.swept, r.dets, r.ret, r.err)
          /\ frame_clock' = Max2(frame_clock, frame_id)
          /\ streak' = Streak(r)
          /\ seen' = Seen(r)
          /\ UNCHANGED <<now, registry_vars, iou_vars, train_vars>>

\* tracker.update(raw_detections, frame_id, frame.shape); the caller takes
\* frame_id from the clock, so it never decreases.
Update(detections, frame_id, image_shape) ==
    /\ frame_id >= frame_clock
    /\ UpdateCall(detections, frame_id, image_shape)

\* tracker.cleanup_old_objects(force)
Cleanup(force) ==
    /\ \E t \in {cleanup_old_objects(Tracker, force, now)} : SetTracker(t)
    /\ last' = Call("cleanup", force, SweepDue(force, now, last_cleanup), << >>, << >>,
                    FALSE)
    /\ seen' = Restrict(seen, DOMAIN tracked_objects')
    /\ UNCHANGED <<now, frame_clock, streak, registry_vars, iou_vars, train_vars>>

StatisticsSweeps ==
    /\ SetTracker(cleanup_old_objects(Tracker, TRUE, now))
    /\ last' = [Call("statistics", FALSE, FALSE, << >>, << >>, FALSE)
                   EXCEPT !.stats = get_statistics(Tracker)]
    /\ seen' = Restrict(seen, DOMAIN tracked_objects')
    /\ UNCHANGED <<now, frame_clock, streak, registry_vars, iou_vars, train_vars>>

\* tracker.get_statistics()
Statistics ==
    /\ last' = [Call("statistics", FALSE, FALSE, << >>, << >>, FALSE)
                   EXCEPT !.stats = get_statistics(Tracker)]
    /\ UNCHANGED <<tracker_vars, now, frame_clock, streak, seen, registry_vars, iou_vars, train_vars>>

\* wall-clock time passes between calls
Tick(dt) ==
    /\ now + dt <= MaxTime
    /\ now' = now + dt
    /\ UNCHANGED <<tracker_vars, ghost_vars, registry_vars, iou_vars, train_vars>>

Next ==
    \/ \E detections \in Batches, frame_id \in Frames, image_shape \in ImageShapes :
          Update(detections, frame_id, image_shape)
    \/ \E force \in BOOLEAN : Cleanup(force)
    \/ Statistics
    \/ \E dt \in {cleanup_interval - 1, cleanup_interval} : Tick(dt)

Spec == Init /\ [][Next]_vars

\* The tracker on its own, driven by a caller that does not take frame_id
\* from the clock: update is fed frame ids in any order, one detection at
\* most per call, a car or a person at the same place.
OrderBatches ==
    {detections \in Batches :
        /\ Len(detections) <= 1
        /\ \A i \in 1 .. Len(detections) :
               detections[i].bbox \in {<<0, 0, 1, 1>>, <<0, 0, 6, 2>>}}

AnyOrderNext ==
    \/ \E detections \in OrderBatches, frame_id \in Frames, image_shape \in ImageShapes :
          UpdateCall(detections, frame_id, image_shape)
    \/ \E force \in BOOLEAN : Cleanup(force)
    \/ \E dt \in {cleanup_interval - 1, cleanup_interval} : Tick(dt)

AnyOrderSpec == Init /\ [][AnyOrderNext]_vars

\* ------------------------------------------------------------ claims
TotalConfirmed == Cardinality(DOMAIN counted_objects)
ActiveTracks == Cardinality(DOMAIN tracked_objects)

\* C1: at-most-once counting.  While every update call so far carried exactly
\* one detection, of one class, overlapping the previous call's box with IoU
\* above the threshold, the confirmed total is 0 before the min_hits-th call
\* and exactly 1 from the min_hits-th call on.
C1_AtMostOnceCounting ==
    streak >= 0 => TotalConfirmed = (IF streak >= min_hits THEN 1 ELSE 0)

\* the object has persisted one frame beyond its confirmation
C1_Witness == streak > min_hits /\ TotalConfirmed = 1

\* C2: de-bounce.  A live track created or matched in fewer than min_hits
\* update calls is not in the counted ledger, and the last update call
\* returned no detection carrying its id.
C2_DebounceByFrames ==
    \A id \in DOMAIN tracked_objects :
        seen[id] < min_hits =>
            /\ id \notin DOMAIN counted_objects
            /\ \A i \in 1 .. Len(last.ret) : last.ret[i].tracking_id # id

\* C3: within one update call a track is matched by at most one detection,
\* so its hit count is the number of calls that created or matched it.
C3_OneMatchPerCall ==
    /\ last.op = "update" =>
          \A i, j \in 1 .. Len(last.dets) :
              i # j => last.dets[i].tracking_id # last.dets[j].tracking_id
    /\ \A id \in DOMAIN tracked_objects : tracked_objects[id].hits = seen[id]

\* C4: stale-track reclamation.  Right after a forced cleanup no live track
\* is more than max_age frames behind the latest frame fed to update (so a
\* confirmed track left undetected for more than max_age frames is gone,
\* while it stays in the ledger).
C4_StaleReclaimedByForcedCleanup ==
    (last.op = "cleanup" /\ last.force) =>
        \A id \in DOMAIN tracked_objects :
            ~(frame_clock - tracked_objects[id].last_frame > max_age)

\* the highest last_frame among the tracks, 0 when there is none
MaxLastFrame(objs) ==
    IF DOMAIN objs = {} THEN 0
    ELSE LET top == CHOOSE i \in DOMAIN objs :
                        \A j \in DOMAIN objs : objs[j].last_frame <= objs[i].last_frame
         IN  objs[top].last_frame

Age(objs, id) == MaxLastFrame(objs) - objs[id].last_frame

\* the step is a call of the named operation (no call moves the clock)
StepOf(op) == last'.op = op /\ now' = now

\* C5: eviction boundary.  A cleanup call that sweeps keeps exactly the
\* tracks at most max_age behind the highest last_frame, untouched; a sweep
\* inside update leaves only tracks at most max_age behind and drops only
\* tracks more than max_age behind; no step without a sweep drops a track.
C5_EvictionBoundary ==
    [][/\ (StepOf("cleanup") /\ last'.swept) =>
            /\ DOMAIN tracked_objects' =
                  {id \in DOMAIN tracked_objects : Age(tracked_objects, id) <= max_age}
            /\ \A id \in DOMAIN tracked_objects' : tracked_objects'[id] = tracked_objects[id]
       /\ (StepOf("update") /\ last'.swept) =>
            /\ \A id \in DOMAIN tracked_objects \ DOMAIN tracked_objects' :
                  MaxLastFrame(tracked_objects') - tracked_objects[id].last_frame > max_age
            /\ \A id \in DOMAIN tracked_objects' : Age(tracked_objects', id) <= max_age
       /\ (DOMAIN tracked_objects \ DOMAIN tracked_objects' # {}) =>
            /\ StepOf("cleanup") \/ StepOf("update")
            /\ last'.swept
      ]_vars

\* a sweep has run and a track exactly max_age behind is still alive
C5_Witness ==
    /\ last.swept
    /\ \E id \in DOMAIN tracked_objects : Age(tracked_objects, id) = max_age

\* C6: cleanup gating.  cleanup(force=false) less than cleanup_interval
\* seconds after last_cleanup changes nothing of the tracker;
\* cleanup(force=true) sweeps and sets last_cleanup to the current time.
C6_CleanupGating ==
    [][StepOf("cleanup") =>
         /\ (~last'.force /\ now - last_cleanup < cleanup_interval) => UNCHANGED tracker_vars
         /\ last'.force =>
               /\ last_cleanup' = now
               /\ DOMAIN tracked_objects' =
                     {id \in DOMAIN tracked_objects : Age(tracked_objects, id) <= max_age}
      ]_vars

\* an unforced cleanup was skipped some time after the last sweep, leaving a
\* track more than max_age behind in place
C6_Witness ==
    /\ last.op = "cleanup" /\ ~last.force /\ ~last.swept
    /\ 0 < now - last_cleanup /\ now - last_cleanup < cleanup_interval
    /\ \E id \in DOMAIN tracked_objects : Age(tracked_objects, id) > max_age

\* C7: ledger monotonicity.  Every step keeps every counted id, with its
\* recorded class, so the confirmed total never decreases.
C7_LedgerMonotone ==
    [][/\ \A id \in DOMAIN counted_objects :
             /\ id \in DOMAIN counted_objects'
             /\ counted_objects'[id].class_name = counted_objects[id].class_name
       /\ Cardinality(DOMAIN counted_objects') >= Cardinality(DOMAIN counted_objects)
      ]_vars

\* a counted id whose track has been evicted
C7_Witness ==
    \E id \in DOMAIN counted_objects : id \notin DOMAIN tracked_objects

\* C8: track id uniqueness.  next_id starts at 1 and never decreases; every
\* id in tracks and in counted is positive and below next_id; an id given to
\* a new track is at least the next_id before the call, hence above every id
\* assigned earlier.
C8_IdsNeverReused ==
    /\ next_id = 1
    /\ [][/\ next_id' >= next_id
          /\ \A id \in DOMAIN tracked_objects' \cup DOMAIN counted_objects' :
                id >= 1 /\ id < next_id'
          /\ \A id \in DOMAIN tracked_objects' \ DOMAIN tracked_objects : id >= next_id
         ]_vars

\* the last update call, which swept nothing, created a track although an
\* earlier id had already been evicted
C8_Witness ==
    /\ last.op = "update" /\ ~last.swept
    /\ \E i \in 1 .. Len(last.dets) :
          /\ last.dets[i].tracking_id \in DOMAIN tracked_objects
          /\ tracked_objects[last.dets[i].tracking_id].hits = 1
          /\ \E old \in 1 .. next_id - 1 :
                old < last.dets[i].tracking_id /\ old \notin DOMAIN tracked_objects

\* C9: class partition.  Every detection of an update call carries the id of
\* a track of its own class; two detections with the same box and different
\* classes carry different ids, both new when no track of either class
\* existed before the call.
C9_ClassPartition ==
    [][StepOf("update") =>
         \A i \in 1 .. Len(last'.dets) :
            LET d == last'.dets[i]
            IN  /\ d.tracking_id # 0
                /\ d.tracking_id \in DOMAIN tracked_objects =>
                      tracked_objects[d.tracking_id].class_name = d.class_name
                /\ d.tracking_id \in DOMAIN tracked_objects' =>
                      tracked_objects'[d.tracking_id].class_name = d.class_name
                /\ \A j \in 1 .. Len(last'.dets) :
                      LET e == last'.dets[j]
                      IN  (d.bbox = e.bbox /\ d.class_name # e.class_name) =>
                             /\ d.tracking_id # e.tracking_id
                             /\ (\A id \in DOMAIN tracked_objects :
                                    tracked_objects[id].class_name
                                        \notin {d.class_name, e.class_name}) =>
                                   /\ d.tracking_id \notin DOMAIN tracked_objects
                                   /\ e.tracking_id \notin DOMAIN tracked_objects
      ]_vars

\* the last update call got the same box under two classes and created a
\* track for each
C9_Witness ==
    /\ last.op = "update" /\ Len(last.dets) = 2
    /\ last.dets[1].bbox = last.dets[2].bbox
    /\ last.dets[1].class_name # last.dets[2].class_name
    /\ last.dets[1].tracking_id # last.dets[2].tracking_id
    /\ \A i \in 1 .. 2 :
          /\ last.dets[i].tracking_id \in DOMAIN tracked_objects
          /\ tracked_objects[last.dets[i].tracking_id].hits = 1

\* the box of track id as the k-th detection of the call finds it: the box
\* of the last earlier detection of the call matched to it, else the box
\* before the call
BoxSeenBy(k, id) ==
    LET earlier == {j \in 1 .. k - 1 : last'.dets[j].tracking_id = id}
    IN  IF earlier = {} THEN tracked_objects[id].bbox
        ELSE last'.dets[CHOOSE j \in earlier : \A m \in earlier : m <= j].bbox

IouSeenBy(k, id) == calculate_iou(BoxSeenBy(k, id), last'.dets[k].bbox)

\* the tracks of the k-th detection's class whose IoU with it is above the threshold
Candidates(k) ==
    {id \in DOMAIN tracked_objects :
        /\ tracked_objects[id].class_name = last'.dets[k].class_name
        /\ FracGT(IouSeenBy(k, id), iou_threshold)}

\* C10: association rule.  A detection with no same-class track of IoU
\* strictly above the threshold gets a new track; otherwise it gets the
\* candidate of highest IoU, the lowest id among equals.
C10_AssociationRule ==
    [][StepOf("update") =>
         \A k \in 1 .. Len(last'.dets) :
            LET got == last'.dets[k].tracking_id
            IN  IF Candidates(k) = {}
                THEN got \notin DOMAIN tracked_objects /\ got \in DOMAIN tracked_objects'
                ELSE /\ got \in Candidates(k)
                     /\ \A c \in Candidates(k) :
                           /\ ~FracGT(IouSeenBy(k, c), IouSeenBy(k, got))
                           /\ FracEQ(IouSeenBy(k, c), IouSeenBy(k, got)) => got <= c
      ]_vars

\* the last update call created a track for a detection although a track
\* of its class, untouched by the call, has IoU exactly the threshold with it
C10_Witness ==
    /\ last.op = "update"
    /\ \E k \in 1 .. Len(last.dets) :
          LET d == last.dets[k]
          IN  /\ d.tracking_id \in DOMAIN tracked_objects
              /\ tracked_objects[d.tracking_id].hits = 1
              /\ \E id \in DOMAIN tracked_objects \ Annotated(last.dets) :
                    /\ tracked_objects[id].class_name = d.class_name
                    /\ FracEQ(calculate_iou(tracked_objects[id].bbox, d.bbox), iou_threshold)

\* the track a detection was annotated with has reached min_hits
ConfirmedAtEnd(det) ==
    /\ det.tracking_id \in DOMAIN tracked_objects
    /\ tracked_objects[det.tracking_id].hits >= min_hits

\* C11: confirmation filter.  An update call returns, in input order and
\* with their tracking ids, exactly the detections of the call whose track
\* has hits >= min_hits when the call ends; the others are omitted.
C11_ConfirmationFilter ==
    last.op = "update" =>
        /\ ~last.err
        /\ \A i \in 1 .. Len(last.dets) : last.dets[i].tracking_id # 0
        /\ last.ret = SelectSeq(last.dets, ConfirmedAtEnd)

\* the last update call omitted its first detection, whose track is new, and
\* returned its second, whose track is confirmed
C11_Witness ==
    /\ last.op = "update" /\ Len(last.dets) = 2
    /\ tracked_objects[last.dets[1].tracking_id].hits = 1
    /\ last.ret = <<last.dets[2]>>

\* C12: statistics is a pure read.  A get_statistics call changes nothing of
\* the tracker, and as long as no update or cleanup follows it, a further
\* call would return what it returned.
C12_StatisticsPureRead ==
    /\ [](last.op = "statistics" => last.stats = get_statistics(Tracker))
    /\ [][StepOf("statistics") => UNCHANGED tracker_vars]_vars

\* time has passed since a get_statistics call on a tracker that holds a
\* counted object and a track a sweep would remove
C12_Witness ==
    /\ last.op = "statistics"
    /\ now > 0
    /\ last.stats.total_objects >= 1
    /\ \E id \in DOMAIN tracked_objects : Age(tracked_objects, id) > max_age

\* the count get_statistics reports for a class (an absent key counts 0)
CountOf(stats, class_name) ==
    IF class_name \in DOMAIN stats.counts_by_type THEN stats.counts_by_type[class_name] ELSE 0

Classes == {"car", "person"}

\* C13: statistics values.  get_statistics reports the number of counted
\* ids, the number of live tracks, and for every class the number of
\* counted ids recorded with it; the per-class counts add up to the total.
C13_StatisticsValues ==
    LET stats == get_statistics(Tracker)
    IN  /\ stats.total_objects = Cardinality(DOMAIN counted_objects)
        /\ stats.active_tracks = Cardinality(DOMAIN tracked_objects)
        /\ DOMAIN stats.counts_by_type \subseteq Classes
        /\ \A c \in Classes :
              CountOf(stats, c) =
                 Cardinality({id \in DOMAIN counted_objects : counted_objects[id].class_name = c})
        /\ CountOf(stats, "car") + CountOf(stats, "person") = stats.total_objects

\* get_statistics has reported a counted car and a counted person, one of
\* them no longer tracked
C13_Witness ==
    /\ last.op = "statistics"
    /\ CountOf(last.stats, "car") = 1 /\ CountOf(last.stats, "person") = 1
    /\ last.stats.total_objects = 2 /\ last.stats.active_tracks = 1

\* ------------------------------------------------------------ camera_trackers
\* The registry of one tracker per camera, the request handler process_image
\* and the background task cleanup_trackers.  process_image contains no
\* await, and cleanup_trackers awaits only its sleep, so on the one event
\* loop each call of process_image and each pass of cleanup_trackers runs
\* from start to end without the other in between.
MaxCameras == 2      \* camera ids 1..MaxCameras
MaxRegIds == 2       \* track ids a tracker of the registry ever assigns
MaxRegHits == 3      \* its live tracks' hit counts sum to at most this

Cameras == 1 .. MaxCameras

\* a car, and a car whose box has x2 < x1
Car == [bbox |-> <<0, 0, 6, 2>>, class_name |-> "car", confidence |-> 1]
Inverted == [bbox |-> <<6, 0, 0, 2>>, class_name |-> "car", confidence |-> 1]

RawBatches == SeqsUpTo({Car, Inverted}, MaxDets)

\* line 286: ObjectTracker()
ObjectTracker(now_) ==
    [next_id |-> 1,
     tracked_objects |-> EmptyMap,
     object_history |-> EmptyMap,
     counted_objects |-> EmptyMap,
     last_cleanup |-> now_]

AlwaysCreate(trackers, camera_id, now_) ==
    [trackers |-> (camera_id :> ObjectTracker(now_)) @@ trackers, created |-> TRUE]

\* lines 285-286
GetOrCreate(trackers, camera_id, now_) ==
    IF camera_id \notin DOMAIN trackers
    THEN [trackers |-> (camera_id :> ObjectTracker(now_)) @@ trackers, created |-> TRUE]
    ELSE [trackers |-> trackers, created |-> FALSE]

FrameIdCountdown(now_) == (MaxTime - now_) * 1000

\* line 333: int(time.time() * 1000), the clock being in whole seconds here
FrameId(now_) == now_ * 1000

\* lines 290-300 raised: the tracker of line 286 stays, update is not reached
Raised(g, camera_id) ==
    [trackers |-> g.trackers, created |-> g.created, failed |-> TRUE, updated |-> FALSE,
     frame_id |-> 0, dets |-> << >>, ret |-> << >>, stats |-> NoStats]

ReturnedToAll(g, camera_id, frame_id, r) ==
    [trackers |-> [c \in DOMAIN g.trackers |-> r.t],
     created |-> g.created, failed |-> r.err, updated |-> TRUE,
     frame_id |-> frame_id, dets |-> r.dets, ret |-> r.ret,
     stats |-> IF r.err THEN NoStats ELSE get_statistics(r.t)]

\* lines 334-352 given the outcome r of tracker.update
Returned(g, camera_id, frame_id, r) ==
    [trackers |-> [g.trackers EXCEPT ![camera_id] = r.t],
     created |-> g.created, failed |-> r.err, updated |-> TRUE,
     frame_id |-> frame_id, dets |-> r.dets, ret |-> r.ret,
     stats |-> IF r.err THEN NoStats ELSE get_statistics(r.t)]

\* lines 283-352 given the outcome g of lines 285-286
Handled(g, raw_detections, decodes, camera_id, image_shape, now_) ==
    IF ~decodes THEN Raised(g, camera_id)
    ELSE Returned(g, camera_id, FrameId(now_),
                  update(g.trackers[camera_id], raw_detections, FrameId(now_),
                         image_shape, now_))

\* lines 275-352: the registry after the call and what the call did
process_image(trackers, raw_detections, decodes, camera_id, image_shape, now_) ==
    Handled(GetOrCreate(trackers, camera_id, now_), raw_detections, decodes, camera_id,
            image_shape, now_)

IsInactiveNeverCounted(tracker) == Cardinality(DOMAIN tracker.counted_objects) = 0

IsInactiveNoneConfirmed(tracker) ==
    \A id \in DOMAIN tracker.tracked_objects : tracker.tracked_objects[id].hits < min_hits

\* line 509
IsInactive(tracker) == Cardinality(DOMAIN tracker.tracked_objects) = 0

\* lines 506-510 given the tracker as the forced sweep left it
Reaped(trackers, camera_id, tracker) ==
    IF IsInactive(tracker)
    THEN Restrict(trackers, DOMAIN trackers \ {camera_id})
    ELSE [trackers EXCEPT ![camera_id] = tracker]

\* lines 505-510 over the cameras of list(camera_trackers.items()) not yet
\* visited (the order of the visits does not change the outcome)
RECURSIVE ReapLoop(_, _, _)
ReapLoop(trackers, cams, now_) ==
    IF cams = {} THEN trackers
    ELSE LET camera_id == MinOfSet(cams)
         IN  ReapLoop(Reaped(trackers, camera_id,
                             cleanup_old_objects(trackers[camera_id], TRUE, now_)),
                      cams \ {camera_id}, now_)

\* lines 502-510: one pass
cleanup_trackers(trackers, now_) == ReapLoop(trackers, DOMAIN trackers, now_)

\* the hits of the camera's live tracks
HitsOf(camera_id) ==
    IF camera_id \in DOMAIN camera_trackers
    THEN SumHits(camera_trackers[camera_id].tracked_objects,
                 DOMAIN camera_trackers[camera_id].tracked_objects)
    ELSE 0

\* a detection request for a camera that still sends frames
ProcessImage(camera_id, raw_detections, decodes, image_shape) ==
    /\ camera_id \notin idle
    /\ HitsOf(camera_id) + Len(raw_detections) <= MaxRegHits
    /\ \E p \in {process_image(camera_trackers, raw_detections, decodes, camera_id,
                               image_shape, now)} :
          /\ p.trackers[camera_id].next_id - 1 <= MaxRegIds
          /\ camera_trackers' = p.trackers
          /\ fed' = IF p.updated THEN (camera_id :> p.frame_id) @@ fed ELSE fed
          /\ reg_last' = RegCall("process_image", camera_id, p.created, p.failed,
                                 p.dets, p.ret)
    /\ UNCHANGED <<tracker_vars, now, ghost_vars, idle, iou_vars, train_vars>>

\* the pass that follows each sleep of cleanup_trackers; when the sleep ends
\* is left open
CleanupTrackers ==
    /\ camera_trackers' = cleanup_trackers(camera_trackers, now)
    /\ reg_last' = RegCall("cleanup_trackers", 0, FALSE, FALSE, << >>, << >>)
    /\ UNCHANGED <<tracker_vars, now, ghost_vars, idle, fed, iou_vars, train_vars>>

\* a camera sends its last frame
Disconnect(camera_id) ==
    /\ camera_id \notin idle
    /\ idle' = idle \cup {camera_id}
    /\ UNCHANGED <<tracker_vars, now, ghost_vars, camera_trackers, fed, reg_last, iou_vars, train_vars>>

RegNext ==
    \/ \E camera_id \in Cameras, raw_detections \in RawBatches, decodes \in BOOLEAN,
          image_shape \in ImageShapes :
          ProcessImage(camera_id, raw_detections, decodes, image_shape)
    \/ CleanupTrackers
    \/ \E camera_id \in Cameras : Disconnect(camera_id)
    \/ Tick(cleanup_interval)

\* cleanup_trackers loops for as long as the event loop runs
RegSpec == Init /\ [][RegNext]_vars /\ WF_vars(CleanupTrackers)

\* ------------------------------------------------------------ claims on the registry
\* the step is a call of process_image or a pass of cleanup_trackers
RegStepOf(op) == reg_last'.op = op /\ idle' = idle /\ now' = now

\* the tracks a forced sweep keeps
Fresh(tracker) ==
    {id \in DOMAIN tracker.tracked_objects : Age(tracker.tracked_objects, id) <= max_age}

\* the tracker of a camera as a process_image call finds it or creates it
TrackerFor(camera_id) ==
    IF camera_id \in DOMAIN camera_trackers
    THEN camera_trackers[camera_id]
    ELSE ObjectTracker(now)

TheShape == CHOOSE image_shape \in ImageShapes : TRUE

\* C14: Reaper pass.  A pass force-sweeps every tracker of the registry and
\* removes exactly the trackers left without a track: a kept tracker holds
\* its tracks at most max_age behind, at least one, and last_cleanup is the
\* time of the pass; a removed tracker had no such track; nothing is added.
C14_ReaperPass ==
    [][RegStepOf("cleanup_trackers") =>
         /\ DOMAIN camera_trackers' =
               {c \in DOMAIN camera_trackers : Fresh(camera_trackers[c]) # {}}
         /\ \A c \in DOMAIN camera_trackers' :
               /\ DOMAIN camera_trackers'[c].tracked_objects # {}
               /\ camera_trackers'[c].tracked_objects =
                     Restrict(camera_trackers[c].tracked_objects, Fresh(camera_trackers[c]))
               /\ camera_trackers'[c].last_cleanup = now
               /\ camera_trackers'[c].counted_objects = camera_trackers[c].counted_objects
               /\ camera_trackers'[c].next_id = camera_trackers[c].next_id
      ]_vars

\* a pass has removed the tracker of a camera that had been fed frames, kept
\* another, and swept a stale track out of the one it kept
C14_Witness ==
    /\ reg_last.op = "cleanup_trackers"
    /\ \E c \in DOMAIN fed : c \notin DOMAIN camera_trackers
    /\ \E c \in DOMAIN camera_trackers :
          /\ camera_trackers[c].last_cleanup = now /\ now > 0
          /\ Cardinality(DOMAIN camera_trackers[c].tracked_objects)
                < camera_trackers[c].next_id - 1

\* C15: idle-camera eviction.  The tracker of a camera that sends no more
\* frames is eventually removed from the registry.
C15_IdleCameraEvicted ==
    \A c \in Cameras : (c \in idle) ~> (c \notin DOMAIN camera_trackers)

\* C16: registry mutual exclusion.  process_image creates a tracker exactly
\* when its camera has none in the registry (never a second one for a key
\* that has one), and the tracker it updates is the one the registry holds:
\* after the call the registry's entry for the camera is that tracker as
\* update left it.
C16_RegistryExclusion ==
    [][RegStepOf("process_image") =>
         LET c == reg_last'.camera_id
         IN  /\ reg_last'.created <=> c \notin DOMAIN camera_trackers
             /\ c \in DOMAIN camera_trackers'
             /\ camera_trackers'[c] =
                   IF reg_last'.failed THEN TrackerFor(c)
                   ELSE update(TrackerFor(c), reg_last'.dets, FrameId(now), TheShape, now).t
      ]_vars

\* process_image has updated, a second time, the tracker its camera already
\* had, after a pass of cleanup_trackers that kept it
C16_Witness ==
    /\ reg_last.op = "process_image" /\ ~reg_last.created /\ ~reg_last.failed
    /\ camera_trackers[reg_last.camera_id].last_cleanup > 0
    /\ \E id \in DOMAIN camera_trackers[reg_last.camera_id].tracked_objects :
          camera_trackers[reg_last.camera_id].tracked_objects[id].hits = 2

Malformed(bbox) == bbox[3] <= bbox[1] \/ bbox[4] <= bbox[2]

WellFormedDet(det) == ~Malformed(det.bbox)

\* C18: InvalidInput handling.  A detection whose box has x2 <= x1 or
\* y2 <= y1 gets no tracking id, is not returned, leaves no track and no
\* counted entry, and the tracker ends as update leaves it on the batch
\* without that detection.
C18_MalformedRejected ==
    [][(RegStepOf("process_image") /\ ~reg_last'.failed) =>
         LET c == reg_last'.camera_id
             dets == reg_last'.dets
         IN  /\ \A i \in 1 .. Len(dets) : Malformed(dets[i].bbox) => dets[i].tracking_id = 0
             /\ \A i \in 1 .. Len(reg_last'.ret) : ~Malformed(reg_last'.ret[i].bbox)
             /\ \A id \in DOMAIN camera_trackers'[c].tracked_objects :
                   ~Malformed(camera_trackers'[c].tracked_objects[id].bbox)
             /\ camera_trackers'[c] =
                   update(TrackerFor(c), SelectSeq(dets, WellFormedDet), FrameId(now),
                          TheShape, now).t
      ]_vars

\* C19: camera isolation.  A process_image call for one camera, failed or
\* not, leaves every other camera's tracker as it was and adds at most its
\* own key, with a fresh tracker when the call fails on an unseen key; what
\* a pass of cleanup_trackers does to a camera's tracker is the forced sweep
\* of that tracker alone.
C19_CameraIsolation ==
    [][/\ RegStepOf("process_image") =>
            LET a == reg_last'.camera_id
            IN  /\ DOMAIN camera_trackers' = DOMAIN camera_trackers \cup {a}
                /\ \A b \in DOMAIN camera_trackers \ {a} :
                      camera_trackers'[b] = camera_trackers[b]
                /\ (reg_last'.created /\ reg_last'.failed) =>
                      camera_trackers'[a] = ObjectTracker(now)
       /\ RegStepOf("cleanup_trackers") =>
            \A b \in DOMAIN camera_trackers' :
                /\ b \in DOMAIN camera_trackers
                /\ camera_trackers'[b] = cleanup_old_objects(camera_trackers[b], TRUE, now)
      ]_vars

\* the last call, for a camera not in the registry, tracked a car while
\* another camera's tracker holds a track of its own
C19_Witness ==
    /\ reg_last.op = "process_image" /\ reg_last.created /\ ~reg_last.failed
    /\ Len(reg_last.dets) = 1
    /\ \E b \in DOMAIN camera_trackers \ {reg_last.camera_id} :
          /\ DOMAIN camera_trackers[b].tracked_objects # {}
          /\ camera_trackers[b] # camera_trackers[reg_last.camera_id]

\* ------------------------------------------------------------ calculate_iou alone
MaxCoord == 3        \* box coordinates are 0, 5, .., 5 * MaxCoord

Coords == {5 * k : k \in 0 .. MaxCoord}

\* boxes with x1 <= x2 and y1 <= y2, those of no width or height included
Boxes == {b \in Coords \X Coords \X Coords \X Coords : b[1] <= b[3] /\ b[2] <= b[4]}

IouInit ==
    /\ TrackerInit
    /\ RegistryInit
    /\ TrainIdle
    /\ boxA \in Boxes
    /\ boxB \in Boxes
    /\ iou = << >>

\* self.calculate_iou(boxA, boxB)
CalculateIou ==
    /\ iou = << >>
    /\ iou' = calculate_iou(boxA, boxB)
    /\ UNCHANGED <<tracker_vars, now, ghost_vars, registry_vars, boxA, boxB, train_vars>>

IouNext == CalculateIou

IouSpec == IouInit /\ [][IouNext]_vars

\* the unit squares a box covers
Cells(b) == {<<x, y>> : x \in b[1] .. b[3] - 1, y \in b[2] .. b[4] - 1}

\* C20: IoU correctness.  calculate_iou returns the area common to the two
\* boxes over the area they cover together, 0 when they cover nothing; it is
\* in [0, 1] and the same with the arguments exchanged; it is 25/175 for
\* (0,0,10,10) and (5,5,15,15), 0 for boxes without a common area and 1 for
\* a box of positive area and itself.
C20_IouCorrect ==
    iou # << >> =>
        LET common == Cardinality(Cells(boxA) \cap Cells(boxB))
            covered == Cardinality(Cells(boxA) \cup Cells(boxB))
        IN  /\ iou[2] > 0
            /\ IF covered = 0 THEN iou[1] = 0 ELSE FracEQ(iou, <<common, covered>>)
            /\ iou[1] >= 0 /\ iou[1] <= iou[2]
            /\ FracEQ(iou, calculate_iou(boxB, boxA))
            /\ (boxA = <<0, 0, 10, 10>> /\ boxB = <<5, 5, 15, 15>>) => FracEQ(iou, <<25, 175>>)
            /\ common = 0 => iou[1] = 0
            /\ (boxA = boxB /\ covered > 0) => FracEQ(iou, <<1, 1>>)

\* calculate_iou has returned 25/175 for (0,0,10,10) and (5,5,15,15)
C20_Witness ==
    /\ boxA = <<0, 0, 10, 10>> /\ boxB = <<5, 5, 15, 15>>
    /\ iou # << >>
    /\ iou[1] * 175 = 25 * iou[2]

\* ------------------------------------------------------------ creation, match, ledger
\* the detections of the call that no track takes
Unmatched == {k \in 1 .. Len(last'.dets) : Candidates(k) = {}}

\* the id handed to the unmatched detection k: next_id as it was before the
\* call, raised by one for every unmatched detection before k
NewIdOf(k) == next_id + Cardinality({j \in Unmatched : j < k})

\* C22: creation on no-match.  In an update call with k unmatched detections
\* next_id rises by k; the unmatched detections get, in input order, the ids
\* from the old next_id on, each the id of one new track with hits = 1,
\* first_frame = last_frame = the frame_id of the call and the detection's
\* class, box and confidence; the new tracks are exactly these, and no
\* detection of the call is matched to a track created in the call.
C22_CreationOnNoMatch ==
    [][StepOf("update") =>
         /\ next_id' = next_id + Cardinality(Unmatched)
         /\ DOMAIN tracked_objects' \ DOMAIN tracked_objects = {NewIdOf(k) : k \in Unmatched}
         /\ \A k \in 1 .. Len(last'.dets) :
               IF k \in Unmatched
               THEN /\ last'.dets[k].tracking_id = NewIdOf(k)
                    /\ tracked_objects'[NewIdOf(k)] =
                          [bbox |-> last'.dets[k].bbox,
                           class_name |-> last'.dets[k].class_name,
                           confidence |-> last'.dets[k].confidence,
                           first_frame |-> frame_clock',
                           last_frame |-> frame_clock',
                           hits |-> 1]
               ELSE last'.dets[k].tracking_id < next_id
      ]_vars

\* the last update call got the same box of one class twice and created two
\* tracks, with consecutive ids in input order
C22_Witness ==
    /\ last.op = "update" /\ Len(last.dets) = 2
    /\ last.dets[1].bbox = last.dets[2].bbox
    /\ last.dets[1].class_name = last.dets[2].class_name
    /\ last.dets[1].tracking_id = next_id - 2
    /\ last.dets[2].tracking_id = next_id - 1
    /\ \A i \in 1 .. 2 : tracked_objects[last.dets[i].tracking_id].hits = 1

\* the detections of the call matched to track id
MatchesOf(id) == {k \in 1 .. Len(last'.dets) : last'.dets[k].tracking_id = id}

LastOf(S) == CHOOSE k \in S : \A j \in S : j <= k

\* C23: update on match.  An update call leaves every track it did not
\* match as it was, and changes of a matched track only bbox and confidence
\* (those of the last detection matched to it), last_frame (the frame_id of
\* the call) and hits (one more for every match); class_name and first_frame
\* of a track change in no step of its lifetime.
C23_UpdateOnMatch ==
    [][/\ \A id \in DOMAIN tracked_objects \cap DOMAIN tracked_objects' :
             /\ tracked_objects'[id].class_name = tracked_objects[id].class_name
             /\ tracked_objects'[id].first_frame = tracked_objects[id].first_frame
       /\ StepOf("update") =>
             \A id \in DOMAIN tracked_objects \cap DOMAIN tracked_objects' :
                 IF MatchesOf(id) = {}
                 THEN tracked_objects'[id] = tracked_objects[id]
                 ELSE tracked_objects'[id] =
                         [tracked_objects[id] EXCEPT
                             !.bbox = last'.dets[LastOf(MatchesOf(id))].bbox,
                             !.confidence = last'.dets[LastOf(MatchesOf(id))].confidence,
                             !.last_frame = frame_clock',
                             !.hits = @ + Cardinality(MatchesOf(id))]
      ]_vars

\* the last update call matched a track created at an earlier frame, moved
\* its box, and left another track alone
C23_Witness ==
    /\ last.op = "update" /\ Len(last.dets) = 1
    /\ \E id \in DOMAIN tracked_objects, other \in DOMAIN tracked_objects :
          /\ last.dets[1].tracking_id = id
          /\ tracked_objects[id].hits = 2
          /\ tracked_objects[id].first_frame < tracked_objects[id].last_frame
          /\ Len(object_history[id]) = 2
          /\ object_history[id][1] # object_history[id][2]
          /\ other # id
          /\ tracked_objects[other].last_frame < frame_clock

\* C24: confirmed-iff-counted.  With frame ids that never decrease, every
\* live track with hits >= min_hits is in counted_objects; an id enters
\* counted_objects only in an update call, and its track has
\* hits >= min_hits when that call ends.
C24_ConfirmedIffCounted ==
    /\ [](\A id \in DOMAIN tracked_objects :
             tracked_objects[id].hits >= min_hits => id \in DOMAIN counted_objects)
    /\ [][\A id \in DOMAIN counted_objects' \ DOMAIN counted_objects :
             /\ StepOf("update")
             /\ id \in DOMAIN tracked_objects'
             /\ tracked_objects'[id].hits >= min_hits
         ]_vars

\* a track reached min_hits in the last update call and was counted in it,
\* while another live track below min_hits is not counted
C24_Witness ==
    /\ last.op = "update"
    /\ \E id \in Annotated(last.dets) \cap DOMAIN tracked_objects :
          /\ tracked_objects[id].hits = min_hits
          /\ id \in DOMAIN counted_objects
          /\ counted_objects[id].first_seen = now
    /\ \E id \in DOMAIN tracked_objects :
          tracked_objects[id].hits < min_hits /\ id \notin DOMAIN counted_objects

\* ------------------------------------------------------------ update in any order
\* C21: update never fails.  After every update call, also one whose
\* frame_id is lower than that of an earlier call and whatever the timing
\* of the sweep inside it, the call has not ended in KeyError, and every
\* track id it wrote onto a detection is still a live track.
C21_UpdateNeverFails ==
    last.op = "update" =>
        /\ ~last.err
        /\ Annotated(last.dets) \subseteq DOMAIN tracked_objects

TotalConfirmedOf(trackers, camera_id) ==
    IF camera_id \in DOMAIN trackers
    THEN Cardinality(DOMAIN trackers[camera_id].counted_objects)
    ELSE 0

\* the next track id of a camera: a camera without tracker starts at 1
NextIdOf(trackers, camera_id) ==
    IF camera_id \in DOMAIN trackers THEN trackers[camera_id].next_id ELSE 1

Requests == 1 .. MaxRequests

\* run_training lines 142-146
TrainingStarted(status) == [status EXCEPT !.active = TRUE, !.stop_requested = FALSE]

\* run_training lines 191 or 197, then the finally clause, line 200
TrainingEnded(status) == [status EXCEPT !.active = FALSE, !.stop_requested = FALSE]

\* train_model, lines 301-318: the check of the flag, then add_task; the
\* handler does not set the flag
TrainModel(r) ==
    /\ requests[r] = "new"
    /\ requests' = [requests EXCEPT ![r] = IF training_status.active
                                           THEN "rejected" ELSE "accepted"]
    /\ UNCHANGED <<training_status, tracker_vars, now, ghost_vars, registry_vars, iou_vars>>

\* the background task of an accepted request starts: run_training, lines 136-146
RunTrainingBegins(r) ==
    /\ requests[r] = "accepted"
    /\ training_status' = TrainingStarted(training_status)
    /\ requests' = [requests EXCEPT ![r] = "running"]
    /\ UNCHANGED <<tracker_vars, now, ghost_vars, registry_vars, iou_vars>>

\* it ends, with the model trained, stopped or failed: lines 190-200
RunTrainingEnds(r) ==
    /\ requests[r] = "running"
    /\ training_status' = TrainingEnded(training_status)
    /\ requests' = [requests EXCEPT ![r] = "finished"]
    /\ UNCHANGED <<tracker_vars, now, ghost_vars, registry_vars, iou_vars>>

\* stop_training, lines 345-351, while a training is active
StopTraining ==
    /\ training_status.active
    /\ training_status' = [training_status EXCEPT !.stop_requested = TRUE]
    /\ UNCHANGED <<requests, tracker_vars, now, ghost_vars, registry_vars, iou_vars>>

TrainNext ==
    \/ \E r \in Requests : TrainModel(r)
    \/ \E r \in Requests : RunTrainingBegins(r)
    \/ \E r \in Requests : RunTrainingEnds(r)
    \/ StopTraining

TrainSpec == Init /\ [][TrainNext]_vars

\* the requests whose training was accepted and has not finished
InTraining == {r \in Requests : requests[r] \in {"accepted", "running"}}

\* C27: training mutual exclusion.  At most one run_training executes at any
\* time, and a /train request that arrives while the training of an accepted
\* request has not finished is rejected.
C27_TrainingExclusion ==
    /\ [](Cardinality({r \in Requests : requests[r] = "running"}) <= 1)
    /\ [][\A r \in Requests :
             (requests[r] = "new" /\ requests'[r] # "new" /\ InTraining # {})
                => requests'[r] = "rejected"
         ]_vars
====
